---- MODULE Spec2Model ----
(***************************************************************************)
(* A model of simcolog (src/mod.ts): the logger factory createLogger, the  *)
(* reconfiguration operations logger.modify and modifyLogger, and the six  *)
(* per-severity log methods.                                               *)
(*                                                                         *)
(* A string is a sequence of one-character strings; an ANSI escape         *)
(* sequence written by chalk counts as one character.  A logger is a heap  *)
(* object, named by its position in `loggers`; its closures capture the    *)
(* `options` object, the `stream` chosen at construction and the logger    *)
(* itself.                                                                 *)
(***************************************************************************)
EXTENDS Integers, Sequences, FiniteSets, TLC

VARIABLES
    host,       \* the JavaScript host: "process" (Node, Deno, Bun) or "browser"
    loggers,    \* the heap of Logger objects, in order of construction
    made,       \* history: how each logger was constructed
    calls,      \* history: every log-method call with its arguments and effects
    stdout,     \* chunks written to process.stdout
    stderr,     \* chunks written to process.stderr
    console,    \* entries printed on a console that is not a process stream
    messageHistory  \* what the README's logCallback has pushed

vars == <<host, loggers, made, calls, stdout, stderr, console, messageHistory>>

-----------------------------------------------------------------------------
(* Strings *)

NL == "\n"

isWhitespace(c) == c \in {" ", NL, "\t", "\r"}

\* String.prototype.trim
RECURSIVE trimStart(_)
trimStart(s) ==
    IF s # <<>> /\ isWhitespace(Head(s)) THEN trimStart(Tail(s)) ELSE s

RECURSIVE trimEnd(_)
trimEnd(s) ==
    IF s # <<>> /\ isWhitespace(s[Len(s)])
    THEN trimEnd(SubSeq(s, 1, Len(s) - 1))
    ELSE s

trim(s) == trimEnd(trimStart(s))

\* String.prototype.endsWith, for a one-character search string
endsWith(s, c) == s # <<>> /\ s[Len(s)] = c

\* Array.prototype.join
RECURSIVE join(_, _)
join(parts, sep) ==
    IF parts = <<>> THEN <<>>
    ELSE IF Len(parts) = 1 THEN parts[1]
    ELSE parts[1] \o sep \o join(Tail(parts), sep)

\* String.prototype.slice(from, to), for 0 <= from <= to
slice(s, from, to) ==
    SubSeq(s, from + 1, IF to > Len(s) THEN Len(s) ELSE to)

\* String.prototype.padStart, for a one-character fill string
RECURSIVE padStart(_, _, _)
padStart(s, n, fill) ==
    IF Len(s) >= n THEN s ELSE padStart(<<fill>> \o s, n, fill)

Digits == <<"0", "1", "2", "3", "4", "5", "6", "7", "8", "9">>

\* Number.prototype.toString, for an integer n >= 0
RECURSIVE toString(_)
toString(n) ==
    IF n < 10 THEN <<Digits[n + 1]>>
    ELSE toString(n \div 10) \o <<Digits[(n % 10) + 1]>>

\* (ms / 1000).toFixed(3), for an integer 0 <= ms <= 999: the quotient is the
\* double nearest to ms/1000, whose decimal expansion rounds to "0.ddd".
toFixed3OfThousandth(ms) == <<"0", ".">> \o padStart(toString(ms), 3, "0")

-----------------------------------------------------------------------------
(* Severity levels *)

levels == <<"trace", "debug", "info", "warn", "error", "fatal">>

\* indexOf that answers the length of the array for an absent element
indexOfAbsentLast(l) ==
    IF \E k \in 1..Len(levels) : levels[k] = l
    THEN (CHOOSE k \in 1..Len(levels) : levels[k] = l) - 1
    ELSE Len(levels)

\* Array.prototype.indexOf on `levels`: 0-based, -1 when absent
indexOf(l) ==
    IF \E k \in 1..Len(levels) : levels[k] = l
    THEN (CHOOSE k \in 1..Len(levels) :
              levels[k] = l /\ \A j \in 1..(k - 1) : levels[j] # l) - 1
    ELSE -1

\* the characters of a level name
levelText(l) ==
    CASE l = "trace" -> <<"t", "r", "a", "c", "e">>
      [] l = "debug" -> <<"d", "e", "b", "u", "g">>
      [] l = "info"  -> <<"i", "n", "f", "o">>
      [] l = "warn"  -> <<"w", "a", "r", "n">>
      [] l = "error" -> <<"e", "r", "r", "o", "r">>
      [] l = "fatal" -> <<"f", "a", "t", "a", "l">>

-----------------------------------------------------------------------------
(* Options *)

Fields == {"level", "prefix", "includeTimestamp", "stderr", "logCallback"}

stringPrefix(s) == [type |-> "string", str |-> s, fn |-> ""]
functionPrefix(f) == [type |-> "function", str |-> <<>>, fn |-> f]

defaultOptions ==
    [level |-> "info",
     prefix |-> stringPrefix(<<>>),
     includeTimestamp |-> TRUE,
     stderr |-> FALSE,
     logCallback |-> "noop"]

\* object spread { ...a, ...b }: a fresh object, b's fields win
spread(a, b) ==
    [f \in DOMAIN a \cup DOMAIN b |-> IF f \in DOMAIN b THEN b[f] ELSE a[f]]

\* chalk[color](text): the text between the colour's escape sequences
chalk(color, text) == <<"<" \o color \o ">">> \o text \o <<"</" \o color \o ">">>

\* the prefix function of defaultLogger
colorPrefix(level) ==
    LET color ==
            CASE level = "trace" -> "gray"
              [] level = "debug" -> "blue"
              [] level = "info"  -> "green"
              [] level = "warn"  -> "yellow"
              [] level = "error" -> "red"
              [] level = "fatal" -> "red"
              [] OTHER -> "white"
    IN  <<"[">> \o chalk(color, levelText(level)) \o <<"]">>

\* calling a prefix function
applyPrefix(fn, level) == colorPrefix(level)

-----------------------------------------------------------------------------
(* createLogger *)

\* typeof "process": the operand is a string literal
typeofProcessLiteral == "string"

\* the spread the other way round: { ...opts, ...defaultOptions }
resolveOptionsDefaultsWin(opts) == spread(opts, defaultOptions)

\* const options = { ...defaultOptions, ...opts }
resolveOptions(opts) == spread(defaultOptions, opts)

\* const stream = typeof "process" === "object" ? (stderr ? process.stderr : process.stdout) : null
selectStream(options) ==
    IF typeofProcessLiteral = "object"
    THEN IF options.stderr THEN "stderr" ELSE "stdout"
    ELSE "null"

\* The logger object: `options`, the closures' captured `stream`, and `self`,
\* the logger that the `modify` closure captured.
newLogger(opts, at) ==
    LET options == resolveOptions(opts)
    IN  [options |-> options, stream |-> selectStream(options), self |-> at]

\* createLogger(opts), allocating the new logger at the end of the heap
createLogger(heap, opts) == Append(heap, newLogger(opts, Len(heap) + 1))

\* modifyLogger that assigns the overrides to logger.options before it
\* constructs the new logger: Object.assign(logger.options, opts)
modifyLoggerInPlace(heap, i, opts) ==
    LET assigned == [heap EXCEPT ![i].options = spread(@, opts)]
    IN  createLogger(assigned, assigned[i].options)

\* modifyLogger that forgets the logger's options: createLogger(opts)
modifyLoggerFromDefaults(heap, i, opts) == createLogger(heap, opts)

\* modifyLogger(logger, opts), for the logger at heap[i]
modifyLogger(heap, i, opts) == createLogger(heap, spread(heap[i].options, opts))

\* logger.modify(opts), for the logger at heap[i]: the closure calls
\* modifyLogger on the logger it captured
modify(heap, i, opts) == modifyLogger(heap, heap[i].self, opts)

\* the options that defaultLogger is created with
defaultLoggerOpts == [level |-> "debug", prefix |-> functionPrefix("colorPrefix")]

-----------------------------------------------------------------------------
(* The log methods logger[level] *)

\* the comparison made strict
shouldLogStrictlyAbove(options, level) == indexOf(level) > indexOf(options.level)

shouldLog(options, level) == indexOf(level) >= indexOf(options.level)

\* typeof prefix === "function" ? prefix(level) : prefix ?? ""
resolvePrefix(options, level) ==
    IF options.prefix.type = "function" THEN applyPrefix(options.prefix.fn, level)
    ELSE IF options.prefix.type = "string" THEN options.prefix.str
    ELSE <<>>

\* date: [hours, minutes, seconds, milliseconds] as the Date getters return them
timestamp(options, date) ==
    IF options.includeTimestamp
    THEN <<"[">> \o padStart(toString(date.hours), 2, "0")
         \o <<":">> \o padStart(toString(date.minutes), 2, "0")
         \o <<":">> \o padStart(toString(date.seconds), 2, "0")
         \o <<".">> \o slice(toFixed3OfThousandth(date.milliseconds), 2, 5)
         \o <<"]", " ">>
    ELSE <<>>

\* the message and the extra arguments all joined with spaces:
\* [message, ...rest].join(" ").trim()
joinMessageWithSpace(message, rest) == trim(join(<<message>> \o rest, <<" ">>))

\* (message + rest.join(" ")).trim()
joinMessage(message, rest) == trim(message \o join(rest, <<" ">>))

\* the whole line trimmed rather than the message
formatMessageTrimmed(options, level, message, rest, date) ==
    trim(timestamp(options, date) \o resolvePrefix(options, level) \o <<" ">>
             \o message \o join(rest, <<" ">>))

\* `${timestamp + prefix} ${(message + rest.join(" ")).trim()}`
formatMessage(options, level, message, rest, date) ==
    timestamp(options, date) \o resolvePrefix(options, level) \o <<" ">>
        \o joinMessage(message, rest)

Effect(op, target, level, text) ==
    [op |-> op, target |-> target, level |-> level, text |-> text]

\* what the branch on `stream` does with the formatted message
emitLine(logger, message, formattedMessage) ==
    IF logger.stream = "null"
    THEN <<Effect("console.log", "console", "", formattedMessage)>>
    ELSE <<Effect("write", logger.stream, "", formattedMessage)>>
         \o (IF ~endsWith(message, NL)
             THEN <<Effect("write", logger.stream, "", <<NL>>)>>
             ELSE <<>>)

\* the log method with the callback invoked before the line is written
logMethodCallbackFirst(logger, level, message, rest, date) ==
    IF indexOf(level) < indexOf(logger.options.level) THEN <<>>
    ELSE LET formattedMessage ==
                 formatMessage(logger.options, level, message, rest, date)
         IN  <<Effect("callback", logger.options.logCallback, "", formattedMessage)>>
             \o emitLine(logger, message, formattedMessage)

\* logger[level](message, ...rest): the calls it makes on the outside world,
\* in order
logMethod(logger, level, message, rest, date) ==
    IF ~shouldLog(logger.options, level) THEN <<>>
    ELSE LET formattedMessage ==
                 formatMessage(logger.options, level, message, rest, date)
         IN  (IF logger.options.prefix.type = "function"
              THEN <<Effect("prefix", logger.options.prefix.fn, level, <<>>)>>
              ELSE <<>>)
             \o emitLine(logger, message, formattedMessage)
             \o <<Effect("callback", logger.options.logCallback, "", formattedMessage)>>

-----------------------------------------------------------------------------
(* The outside world *)

\* What one effect appends to a sink.  console.log prints its argument and
\* ends the line; where there is a process the console is process.stdout.
chunkFor(sink, h, e) ==
    IF e.op = "write" /\ e.target = sink THEN <<e.text>>
    ELSE IF e.op = "console.log" /\ h = "process" /\ sink = "stdout"
        THEN <<e.text \o <<NL>>>>
    ELSE IF e.op = "console.log" /\ h = "browser" /\ sink = "console"
        THEN <<e.text \o <<NL>>>>
    ELSE IF e.op = "callback" /\ e.target = "push" /\ sink = "messageHistory"
        THEN <<e.text>>
    ELSE <<>>

RECURSIVE chunksFor(_, _, _)
chunksFor(sink, h, effects) ==
    IF effects = <<>> THEN <<>>
    ELSE chunkFor(sink, h, Head(effects)) \o chunksFor(sink, h, Tail(effects))

Hosts == {"process", "browser"}

-----------------------------------------------------------------------------
(* Actions *)

Init ==
    /\ host \in Hosts
    /\ loggers = createLogger(<<>>, defaultLoggerOpts)
    /\ made = <<[via |-> "module", base |-> 0, opts |-> defaultLoggerOpts]>>
    /\ calls = <<>>
    /\ stdout = <<>>
    /\ stderr = <<>>
    /\ console = <<>>
    /\ messageHistory = <<>>

Construct(heap, via, base, opts) ==
    /\ loggers' = heap
    /\ made' = Append(made, [via |-> via, base |-> base, opts |-> opts])
    /\ UNCHANGED <<host, calls, stdout, stderr, console, messageHistory>>

\* createLogger(opts)
CreateLogger(Opts, maxLoggers) ==
    \E opts \in Opts :
        /\ Len(loggers) < maxLoggers
        /\ Construct(createLogger(loggers, opts), "createLogger", 0, opts)

\* modifyLogger(loggers[i], opts)
ModifyLogger(Opts, maxLoggers) ==
    \E i \in 1..Len(loggers), opts \in Opts :
        /\ Len(loggers) < maxLoggers
        /\ Construct(modifyLogger(loggers, i, opts), "modifyLogger", i, opts)

\* loggers[i].modify(opts)
Modify(Opts, maxLoggers) ==
    \E i \in 1..Len(loggers), opts \in Opts :
        /\ Len(loggers) < maxLoggers
        /\ Construct(modify(loggers, i, opts), "modify", i, opts)

\* loggers[i][c.level](c.message, ...c.rest), at the time c.date
Log(Calls, maxCalls) ==
    \E i \in 1..Len(loggers), c \in Calls :
        /\ Len(calls) < maxCalls
        /\ LET effects == logMethod(loggers[i], c.level, c.message, c.rest, c.date)
           IN  /\ calls' = Append(calls,
                       [logger |-> i, level |-> c.level, message |-> c.message,
                        rest |-> c.rest, date |-> c.date, effects |-> effects])
               /\ stdout' = stdout \o chunksFor("stdout", host, effects)
               /\ stderr' = stderr \o chunksFor("stderr", host, effects)
               /\ console' = console \o chunksFor("console", host, effects)
               /\ messageHistory' =
                      messageHistory \o chunksFor("messageHistory", host, effects)
        /\ UNCHANGED <<host, loggers, made>>

-----------------------------------------------------------------------------
(* Inputs *)

NoOpts == [f \in {} |-> TRUE]

Call(level, message, rest, date) ==
    [level |-> level, message |-> message, rest |-> rest, date |-> date]

Time(h, m, s, ms) == [hours |-> h, minutes |-> m, seconds |-> s, milliseconds |-> ms]

Morning == Time(9, 5, 7, 5)

LevelSet == {levels[k] : k \in 1..Len(levels)}

\* a level option outside the LogLevel type
Unrecognized == "verbose"

-----------------------------------------------------------------------------
(* Callbacks and destinations: loggers with and without the README's        *)
(* logCallback, on either stream, called several times.                     *)

MaxLoggers == 2
MaxCalls == 2

Overrides ==
    { [logCallback |-> "push"],
      [stderr |-> TRUE],
      [stderr |-> TRUE, logCallback |-> "push", includeTimestamp |-> FALSE] }

Calls ==
    { Call("info", <<"x">>, <<>>, Morning),
      Call("info", <<"y">>, <<>>, Morning),
      Call("trace", <<"x">>, <<>>, Morning) }

Next ==
    \/ CreateLogger(Overrides, MaxLoggers)
    \/ ModifyLogger(Overrides, MaxLoggers)
    \/ Modify(Overrides, MaxLoggers)
    \/ Log(Calls, MaxCalls)

Spec == Init /\ [][Next]_vars

-----------------------------------------------------------------------------
(* Construction and reconfiguration: every field supplied and omitted,      *)
(* chains of modify calls.                                                  *)

HeapMaxLoggers == 3
HeapMaxCalls == 1

HeapOverrides ==
    { NoOpts,
      [level |-> "trace"],
      [includeTimestamp |-> FALSE, level |-> "info"],
      [prefix |-> stringPrefix(<<"P">>), stderr |-> TRUE, logCallback |-> "push"] }

\* trace is printed by a logger of level trace and suppressed by the others
HeapCalls == { Call("trace", <<"x">>, <<>>, Morning) }

NextHeap ==
    \/ CreateLogger(HeapOverrides, HeapMaxLoggers)
    \/ ModifyLogger(HeapOverrides, HeapMaxLoggers)
    \/ Modify(HeapOverrides, HeapMaxLoggers)
    \/ Log(HeapCalls, HeapMaxCalls)

SpecHeap == Init /\ [][NextHeap]_vars

-----------------------------------------------------------------------------
(* Filtering: every configured level, recognized or not, against every      *)
(* log method.                                                              *)

FilterMaxLoggers == 2
FilterMaxCalls == 1

FilterOverrides == {[level |-> l] : l \in LevelSet \cup {Unrecognized}}

FilterCalls == {Call(l, <<"x">>, <<>>, Morning) : l \in LevelSet}

NextFilter ==
    \/ CreateLogger(FilterOverrides, FilterMaxLoggers)
    \/ ModifyLogger(FilterOverrides, FilterMaxLoggers)
    \/ Modify(FilterOverrides, FilterMaxLoggers)
    \/ Log(FilterCalls, FilterMaxCalls)

SpecFilter == Init /\ [][NextFilter]_vars

-----------------------------------------------------------------------------
(* Formatting: static, empty and function prefixes, timestamps on and off,  *)
(* messages with surrounding whitespace, extra arguments, several times.    *)

FormatMaxLoggers == 2
FormatMaxCalls == 1

FormatOverrides ==
    { NoOpts,
      [includeTimestamp |-> FALSE],
      [includeTimestamp |-> FALSE, prefix |-> stringPrefix(<<"P">>)] }

FormatMessages ==
    { <<"h", "i">>, <<" ", "a", " ">>, <<"a", NL>>, <<"a">> }

FormatRests ==
    { <<>>, << <<"b">> >>, << <<"b">>, <<"c">> >>, << <<"b", " ">>, <<"c", NL>> >> }

FormatTimes == {Morning, Time(0, 0, 0, 0), Time(23, 59, 59, 999), Time(13, 40, 30, 50)}

\* every message alone, one message with every list of extra arguments, a
\* message that ends in whitespace before extra arguments, and every time
FormatCalls ==
    {Call("info", m, <<>>, Morning) : m \in FormatMessages}
    \cup {Call("info", <<"a">>, r, Morning) : r \in FormatRests}
    \cup {Call("info", <<" ", "a", " ">>, << <<"b", " ">>, <<"c", NL>> >>, Morning)}
    \cup {Call("error", <<"h", "i">>, <<>>, t) : t \in FormatTimes}

NextFormat ==
    \/ CreateLogger(FormatOverrides, FormatMaxLoggers)
    \/ ModifyLogger(FormatOverrides, FormatMaxLoggers)
    \/ Modify(FormatOverrides, FormatMaxLoggers)
    \/ Log(FormatCalls, FormatMaxCalls)

SpecFormat == Init /\ [][NextFormat]_vars

-----------------------------------------------------------------------------
(* Vocabulary of the properties *)

\* the severity ordering table
Rank(l) ==
    CASE l = "trace" -> 0 [] l = "debug" -> 1 [] l = "info" -> 2
      [] l = "warn" -> 3 [] l = "error" -> 4 [] l = "fatal" -> 5

CallIds == 1..Len(calls)

OptionsOf(k) == loggers[calls[k].logger].options

IsOutput(e) == e.op \in {"write", "console.log"}
IsCallback(e) == e.op = "callback"

OutputsOf(k) == SelectSeq(calls[k].effects, IsOutput)
CallbacksOf(k) == SelectSeq(calls[k].effects, IsCallback)

Emitted(k) == OutputsOf(k) # <<>>
Suppressed(k) == calls[k].effects = <<>>

\* the formatted line of a call that was not suppressed
LineOf(k) == OutputsOf(k)[1].text

\* everything call k put on a sink
PutOn(sink, k) == chunksFor(sink, host, calls[k].effects)

RECURSIVE Flatten(_)
Flatten(chunks) ==
    IF chunks = <<>> THEN <<>> ELSE Head(chunks) \o Flatten(Tail(chunks))

-----------------------------------------------------------------------------
(* Filtering *)

\* C1: on a logger whose minimum severity M is one of the six levels, the
\* method S writes a line and invokes the callback if index(S) >= index(M),
\* and does nothing at all if index(S) < index(M).
C1_FilterByRank ==
    \A k \in CallIds :
        OptionsOf(k).level \in LevelSet =>
            IF Rank(calls[k].level) >= Rank(OptionsOf(k).level)
            THEN /\ Emitted(k)
                 /\ CallbacksOf(k) # <<>>
                 /\ PutOn("stdout", k) \o PutOn("stderr", k) \o PutOn("console", k) # <<>>
            ELSE /\ Suppressed(k)
                 /\ PutOn("stdout", k) \o PutOn("stderr", k) \o PutOn("console", k) = <<>>
                 /\ PutOn("messageHistory", k) = <<>>

\* info is called on a logger of level warn and is suppressed
C1_Witness ==
    \E k \in CallIds :
        /\ OptionsOf(k).level = "warn"
        /\ calls[k].level = "info"
        /\ Suppressed(k)
        /\ stdout = <<>> /\ console = <<>>

\* C10: on a logger whose minimum severity is not one of the six levels,
\* every one of the six methods writes its line and invokes the callback.
C10_UnrecognizedLevelLogsAll ==
    /\ \A i \in 1..Len(loggers) :
           loggers[i].options.level \notin LevelSet =>
               \A l \in LevelSet :
                   LET effects == logMethod(loggers[i], l, <<"x">>, <<>>, Morning)
                   IN  /\ \E n \in 1..Len(effects) : IsOutput(effects[n])
                       /\ \E n \in 1..Len(effects) : IsCallback(effects[n])
    /\ \A k \in CallIds :
           OptionsOf(k).level \notin LevelSet =>
               /\ Emitted(k)
               /\ CallbacksOf(k) # <<>>
               /\ PutOn("stdout", k) \o PutOn("stderr", k) \o PutOn("console", k) # <<>>

\* trace is called on a logger created with level "verbose" and is printed
C10_Witness ==
    \E k \in CallIds :
        /\ made[calls[k].logger].via = "createLogger"
        /\ OptionsOf(k).level = Unrecognized
        /\ calls[k].level = "trace"
        /\ Emitted(k)
        /\ stdout \o console # <<>>

-----------------------------------------------------------------------------
(* Construction and reconfiguration *)

LoggerIds == 1..Len(loggers)

Via(vias) == {j \in LoggerIds : made[j].via \in vias}

\* the defaults as documented
DocumentedDefault(f) ==
    CASE f = "level" -> "info"
      [] f = "prefix" -> [type |-> "string", str |-> <<>>, fn |-> ""]
      [] f = "includeTimestamp" -> TRUE
      [] f = "stderr" -> FALSE
      [] f = "logCallback" -> "noop"

\* a log method of logger i prints something
Prints(i, l) == logMethod(loggers[i], l, <<"x">>, <<>>, Morning) # <<>>

\* C2: no modify, modifyLogger, createLogger or log-method call changes a
\* logger that already exists: its options, its destination and the logger
\* its modify method works on stay as they were at its creation, so its log
\* methods filter and format as before.
C2_ModifyLeavesLoggersAlone ==
    [][\A i \in LoggerIds :
           /\ i \in 1..Len(loggers')
           /\ loggers'[i] = loggers[i]
           /\ \A c \in HeapCalls :
                  logMethod(loggers'[i], c.level, c.message, c.rest, c.date)
                      = logMethod(loggers[i], c.level, c.message, c.rest, c.date)]_vars

\* defaultLogger has been modified with an override of its level, its trace
\* method has been called, and the call was suppressed as defaultLogger's
\* level debug demands
C2_Witness ==
    \E k \in CallIds :
        /\ calls[k].logger = 1
        /\ Len(loggers) >= 2
        /\ made[2].via = "modify" /\ made[2].base = 1
        /\ made[2].opts = [level |-> "trace"]
        /\ calls[k].level = "trace"
        /\ Suppressed(k)
        /\ loggers[1].options.level = "debug"

\* C3: logger.modify(o) and modifyLogger(logger, o) make a new logger whose
\* options have o's value for each field o supplies and the modified
\* logger's value for every other field.
C3_ModifyMerges ==
    \A j \in Via({"modify", "modifyLogger"}) :
        /\ made[j].base \in 1..(j - 1)
        /\ DOMAIN loggers[j].options = Fields
        /\ \A f \in Fields :
               loggers[j].options[f] =
                   IF f \in DOMAIN made[j].opts
                   THEN made[j].opts[f]
                   ELSE loggers[made[j].base].options[f]

\* defaultLogger.modify({level: "trace"}).modify({includeTimestamp: false,
\* level: "info"}) keeps the prefix function, has timestamps off and
\* suppresses trace
C3_Witness ==
    /\ Len(loggers) >= 3
    /\ made[2] = [via |-> "modify", base |-> 1, opts |-> [level |-> "trace"]]
    /\ made[3] = [via |-> "modify", base |-> 2,
                  opts |-> [includeTimestamp |-> FALSE, level |-> "info"]]
    /\ loggers[3].options.prefix = functionPrefix("colorPrefix")
    /\ ~loggers[3].options.includeTimestamp
    /\ \E k \in CallIds :
           calls[k].logger = 3 /\ calls[k].level = "trace" /\ Suppressed(k)

\* C9: createLogger(o) resolves each field to o's value when o supplies it
\* and to the documented default otherwise; a logger created from {} prints
\* info, warn, error and fatal and suppresses trace and debug.
C9_CreateAppliesDefaults ==
    \A j \in Via({"createLogger", "module"}) :
        /\ DOMAIN loggers[j].options = Fields
        /\ \A f \in Fields :
               loggers[j].options[f] =
                   IF f \in DOMAIN made[j].opts
                   THEN made[j].opts[f]
                   ELSE DocumentedDefault(f)
        /\ made[j].opts = NoOpts =>
               /\ \A l \in {"info", "warn", "error", "fatal"} : Prints(j, l)
               /\ \A l \in {"trace", "debug"} : ~Prints(j, l)
               /\ \A k \in CallIds :
                      calls[k].logger = j =>
                          (Suppressed(k) <=> calls[k].level \in {"trace", "debug"})

\* a logger created from {} and one created with three fields supplied, and
\* trace suppressed by the first
C9_Witness ==
    \E i, j \in Via({"createLogger"}) :
        /\ made[i].opts = NoOpts
        /\ DOMAIN made[j].opts = {"prefix", "stderr", "logCallback"}
        /\ loggers[j].options.level = "info"
        /\ \E k \in CallIds :
               calls[k].logger = i /\ calls[k].level = "trace" /\ Suppressed(k)

-----------------------------------------------------------------------------
(* Callbacks and destinations *)

CallsOn(i) == SelectSeq([k \in CallIds |-> k],
                        LAMBDA k : calls[k].logger = i /\ ~Suppressed(k))

CallsBy(cb) == SelectSeq([k \in CallIds |-> k],
                         LAMBDA k : ~Suppressed(k) /\ OptionsOf(k).logCallback = cb)

\* the lines logger i wrote, and the strings its callback received, in order
LinesWritten(i) == [n \in 1..Len(CallsOn(i)) |-> LineOf(CallsOn(i)[n])]
LinesReceived(i) ==
    Flatten([n \in 1..Len(CallsOn(i)) |->
                 [m \in 1..Len(CallbacksOf(CallsOn(i)[n])) |->
                      CallbacksOf(CallsOn(i)[n])[m].text]])

\* C4: a call that is not suppressed invokes the logger's logCallback exactly
\* once, as its last step, after the line was written, with the very string
\* that was written; so a logger's callback has received the lines the logger
\* wrote, in order, and messageHistory holds the lines of the loggers that
\* push to it.
C4_CallbackGetsWrittenLine ==
    /\ \A k \in CallIds :
           ~Suppressed(k) =>
               LET effects == calls[k].effects
                   last == effects[Len(effects)]
               IN  /\ Len(CallbacksOf(k)) = 1
                   /\ IsCallback(last)
                   /\ last.target = OptionsOf(k).logCallback
                   /\ Len(OutputsOf(k)) >= 1
                   /\ last.text = LineOf(k)
    /\ \A i \in LoggerIds : LinesReceived(i) = LinesWritten(i)
    /\ messageHistory =
           [n \in 1..Len(CallsBy("push")) |-> LineOf(CallsBy("push")[n])]

\* a logger that pushes to messageHistory printed x and then y
C4_Witness ==
    \E i \in LoggerIds :
        /\ loggers[i].options.logCallback = "push"
        /\ Len(CallsOn(i)) = 2
        /\ calls[CallsOn(i)[1]].message = <<"x">>
        /\ calls[CallsOn(i)[2]].message = <<"y">>
        /\ Len(messageHistory) = 2
        /\ messageHistory[1] # messageHistory[2]

\* C7: where there are process streams, a logger whose stderr option is true
\* writes every line that is not suppressed to the error stream, and one
\* whose option is false writes it to the standard output stream.
C7_DestinationFollowsStderrOption ==
    \A k \in CallIds :
        (host = "process" /\ ~Suppressed(k)) =>
            IF OptionsOf(k).stderr
            THEN /\ PutOn("stderr", k) # <<>>
                 /\ PutOn("stdout", k) = <<>>
            ELSE /\ PutOn("stdout", k) # <<>>
                 /\ PutOn("stderr", k) = <<>>

-----------------------------------------------------------------------------
(* Formatting *)

TwoDigits(n) == <<Digits[(n \div 10) + 1], Digits[(n % 10) + 1]>>
ThreeDigits(n) == <<Digits[(n \div 100) + 1]>> \o TwoDigits(n % 100)

\* "[HH:MM:SS.mmm] "
Stamp(date) ==
    <<"[">> \o TwoDigits(date.hours) \o <<":">> \o TwoDigits(date.minutes)
        \o <<":">> \o TwoDigits(date.seconds) \o <<".">>
        \o ThreeDigits(date.milliseconds) \o <<"]", " ">>

\* s without its leading and trailing whitespace
Trimmed(s) ==
    LET inked == {n \in 1..Len(s) : ~isWhitespace(s[n])}
    IN  IF inked = {} THEN <<>>
        ELSE SubSeq(s, CHOOSE n \in inked : \A m \in inked : n <= m,
                       CHOOSE n \in inked : \A m \in inked : n >= m)

\* the T and P of a call's line
StampOf(k) == IF OptionsOf(k).includeTimestamp THEN Stamp(calls[k].date) ELSE <<>>
PrefixOf(k) ==
    IF OptionsOf(k).prefix.type = "function"
    THEN applyPrefix(OptionsOf(k).prefix.fn, calls[k].level)
    ELSE OptionsOf(k).prefix.str

\* what follows T, P and the space in a call's line
MessagePartOf(k) ==
    SubSeq(LineOf(k), Len(StampOf(k)) + Len(PrefixOf(k)) + 2, Len(LineOf(k)))

\* the extra arguments one after the other
RECURSIVE Concatenated(_)
Concatenated(rest) ==
    IF rest = <<>> THEN <<>>
    ELSE Concatenated(SubSeq(rest, 1, Len(rest) - 1)) \o rest[Len(rest)]

\* the extra arguments with one space between each two
RECURSIVE SpaceSeparated(_)
SpaceSeparated(rest) ==
    IF Len(rest) <= 1 THEN Concatenated(rest)
    ELSE SpaceSeparated(SubSeq(rest, 1, Len(rest) - 1)) \o <<" ">> \o rest[Len(rest)]

\* C5: the line of a call that is not suppressed is T + P + " " + M: T is
\* "[HH:MM:SS.mmm] " or, with timestamps off, empty; P is the static prefix
\* verbatim or what the prefix function, called once with the method's
\* severity, returns; M is the trimmed message.  T + P is not trimmed.
C5_LineIsStampPrefixSpaceMessage ==
    \A k \in CallIds :
        ~Suppressed(k) =>
            /\ LineOf(k) = StampOf(k) \o PrefixOf(k) \o <<" ">>
                               \o Trimmed(calls[k].message \o SpaceSeparated(calls[k].rest))
            /\ LET asked == SelectSeq(calls[k].effects, LAMBDA e : e.op = "prefix")
               IN  IF OptionsOf(k).prefix.type = "function"
                   THEN Len(asked) = 1 /\ asked[1].level = calls[k].level
                   ELSE asked = <<>>
            /\ (StampOf(k) \o PrefixOf(k) = <<>>) => LineOf(k)[1] = " "

\* createLogger({includeTimestamp: false, prefix: "P"}).info("hi") prints "P hi"
C5_Witness ==
    \E k \in CallIds :
        /\ made[calls[k].logger].via = "createLogger"
        /\ made[calls[k].logger].opts =
               [includeTimestamp |-> FALSE, prefix |-> stringPrefix(<<"P">>)]
        /\ calls[k].level = "info"
        /\ calls[k].message = <<"h", "i">> /\ calls[k].rest = <<>>
        /\ LineOf(k) = <<"P", " ", "h", "i">>

\* C6 as stated: the message part of the line is the trim of the primary
\* message followed directly by the extra arguments, with no character
\* between any of them.
C6_NoSeparatorAnywhere ==
    \A k \in CallIds :
        ~Suppressed(k) =>
            MessagePartOf(k) = Trimmed(calls[k].message \o Concatenated(calls[k].rest))

\* C6 as amended: the message part of the line is the trim of the primary
\* message followed directly by the first extra argument, with one space
\* between each two consecutive extra arguments.
C6_SpaceBetweenExtrasOnly ==
    \A k \in CallIds :
        ~Suppressed(k) =>
            MessagePartOf(k) = Trimmed(calls[k].message \o SpaceSeparated(calls[k].rest))

\* info("a", "b", "c") prints the message "ab c"
C6_Witness ==
    \E k \in CallIds :
        /\ calls[k].message = <<"a">>
        /\ calls[k].rest = << <<"b">>, <<"c">> >>
        /\ ~Suppressed(k)
        /\ MessagePartOf(k) = <<"a", "b", " ", "c">>

\* C8: where there are process streams, what a call that is not suppressed
\* puts out is its line, followed by
\* one newline if the primary message does not end in a newline and by
\* nothing if it does.
C8_NewlineUnlessMessageEndsInOne ==
    \A k \in CallIds :
        (host = "process" /\ ~Suppressed(k)) =>
            Flatten(PutOn("stdout", k) \o PutOn("stderr", k) \o PutOn("console", k))
                = LineOf(k) \o (IF endsWith(calls[k].message, NL) THEN <<>> ELSE <<NL>>)

====
